---- MODULE Spec2Model ----
(***************************************************************************)
(* Weather aggregation of strautomator-core: Weather.getLocationWeather    *)
(* (src/src/weather/index.ts) over provider adapters shaped like           *)
(* StormGlass.getWeather (src/unnamed/part_000).                           *)
(*                                                                         *)
(* Time is in milliseconds, as dayjs keeps it.  Every asynchronous         *)
(* function is cut at its awaits: one action is the code that runs         *)
(* between two suspension points.                                          *)
(***************************************************************************)
EXTENDS Integers, Sequences, FiniteSets, TLC

VARIABLES
    now,               \* the clock, in milliseconds
    stats,             \* provider.stats of every registered provider
    disabledTillDate,  \* provider.disabledTillDate of every registered provider
    cache,             \* the "weather" collection of the cache
    calls,             \* the getLocationWeather calls, by slot
    started,           \* how many calls have been started
    advanced,          \* how many times the clock has been advanced
    quotaUntil,        \* history: the last date a 402 disabled each provider till
    activity,          \* the getActivityWeather call
    registry,          \* the Weather object's providers and maxHoursPast, and init
    reading            \* a StormGlass payload and the summary made of it

vars == <<now, stats, disabledTillDate, cache, calls, started, advanced, quotaUntil, activity,
          registry, reading>>

-----------------------------------------------------------------------------
(* Bounds of the model.                                                    *)

\* Number of provider modules of the list in Weather.init that are modelled.
MaxProviders == 3
\* getLocationWeather calls started in one behaviour.
MaxCalls == 2
\* Times the clock is seen to advance in one behaviour.
MaxAdvances == 1

-----------------------------------------------------------------------------
(* Values.                                                                 *)

HourMs == 60 * 60 * 1000
DayMs == 24 * HourMs

\* null / undefined of a date, and NaN of a coordinate component.
NoDate == 0 - 1
NaN == 0 - 999999999

\* null / undefined of a provider name or module.
NoProvider == "none"
Undefined == "undefined"

\* The clock when the model starts: 21:00 UTC of the ninth day.
StartOfTime == 8 * DayMs + 21 * HourMs

\* const all = [stormglass, tomorrow, weatherapi, openmeteo, ...]
all == SubSeq(<<"stormglass", "tomorrow", "weatherapi", "openmeteo",
                "openweathermap", "visualcrossing">>, 1, MaxProviders)

Range(s) == {s[i] : i \in 1..Len(s)}

\* this.providers after init with every modelled provider enabled and keyed.
providers == Range(all)

\* hoursPast / hoursFuture of a provider module.
StormGlassHoursPast == 168
StormGlassHoursFuture == 0
hoursPast(p) ==
    CASE p = "stormglass" -> StormGlassHoursPast
      [] p = "tomorrow" -> 1
      [] OTHER -> 72
hoursFuture(p) ==
    CASE p = "stormglass" -> StormGlassHoursFuture
      [] p = "tomorrow" -> 4
      [] OTHER -> 24

\* settings.weather[p.name].rateLimit.perDay
perDay(p) ==
    CASE p = "stormglass" -> 3
      [] p = "weatherapi" -> 1
      [] OTHER -> 2
\* settings.weather.defaultProviders
defaultProviders == {"stormglass", "tomorrow"}
\* settings.weather.cacheDuration, in milliseconds.
cacheDuration == HourMs

\* utcNow.diff(p.stats.lastRequest, "hours") > 16
QuotaResetHours == 16
\* ex.response.status == 402
PaymentRequired == 402

-----------------------------------------------------------------------------
(* dayjs.                                                                  *)

\* a.diff(b, "hours"): the whole hours from b to a, truncated towards zero.
\* A null argument, as dayjs(null), is an invalid date: the difference is NaN
\* and every comparison with it is false.
diffHours(a, b) ==
    LET d == a - b
    IN  IF d >= 0 THEN d \div HourMs ELSE 0 - ((0 - d) \div HourMs)

\* t.endOf("day"): 23:59:59.999 of t's UTC day.
endOfDay(t) == (t \div DayMs) * DayMs + DayMs - 1

-----------------------------------------------------------------------------
(* Values of the aggregator.                                               *)

\* A WeatherSummary, and the null and undefined that stand where one may.
Summary(p, text) == [kind |-> "summary", provider |-> p, summary |-> text]
Null == [kind |-> "null", provider |-> NoProvider, summary |-> 0]
UndefinedResult == [kind |-> "undefined", provider |-> NoProvider, summary |-> 0]

\* The condition text of a response: no two responses of a vendor need agree,
\* so the text of a summary names the request it answers (the number of the
\* getLocationWeather call that made it).
textOf(serial) == serial

\* JavaScript truthiness of a summary-valued expression.
truthy(r) == r.kind = "summary"

\* coordinates == null (and the empty array, rejected by the same test).
NullCoordinates == << >>

\* Coordinates in units of 0.00001 degree; the two London pairs of the
\* rounding example, one pair elsewhere, and malformed arguments.
London1 == <<5150731, 0 - 12766>>
London2 == <<5150734, 0 - 12769>>
Lisbon == <<3872229, 0 - 913934>>
ValidCoordinates == {London1, London2, Lisbon}
MalformedCoordinates == {NullCoordinates, <<5150731>>, <<NaN, 0 - 12766>>, <<5150731, NaN>>}

\* Points in time asked about: half an hour before the start of the clock,
\* ninety minutes after it, and 168.5 hours before it.
RecentDate == StartOfTime - HourMs \div 2
FutureDate == StartOfTime + HourMs + HourMs \div 2
OldDate == StartOfTime - 168 * HourMs - HourMs \div 2
\* ... and two and a half hours before it.
EarlierDate == StartOfTime - 2 * HourMs - HourMs \div 2
\* ... and four and a half hours before it.
LongAgoDate == StartOfTime - 4 * HourMs - HourMs \div 2
\* ... and three and a half hours before it.
ThreeHoursDate == StartOfTime - 3 * HourMs - HourMs \div 2
\* ... and 169.5 hours before it.
OlderDate == OldDate - HourMs
Dates == {RecentDate, EarlierDate, ThreeHoursDate, LongAgoDate, FutureDate, OldDate, OlderDate}

\* if (!dDate || !coordinates || coordinates.length != 2 || isNaN(..) || isNaN(..))
isMissing(coordinates, dDate) ==
    IF dDate = NoDate THEN TRUE
    ELSE IF coordinates = NullCoordinates THEN TRUE
    ELSE IF Len(coordinates) /= 2 THEN TRUE
    ELSE IF coordinates[1] = NaN THEN TRUE
    ELSE coordinates[2] = NaN

\* Mutant: toFixed(5), which rounds nothing away.
roundCoordinateFive(c) == c

\* parseFloat(c.toFixed(4)): c in units of 0.00001, the result in units of
\* 0.0001, rounded to the nearest, halves away from zero.
roundCoordinate(c) ==
    IF c >= 0 THEN (c + 5) \div 10 ELSE 0 - ((0 - c + 5) \div 10)

\* coordinates.map((c) => parseFloat(c.toFixed(4)))
roundCoordinates(coordinates) ==
    <<roundCoordinate(coordinates[1]), roundCoordinate(coordinates[2])>>

\* `${coordinates.join("-")}-${dDate.valueOf() / 1000}`: the text is one to
\* one with the rounded pair and the instant.
cacheIdOf(rounded, dDate) == <<rounded[1], rounded[2], dDate>>

CacheIds == {cacheIdOf(roundCoordinates(c), d) : c \in ValidCoordinates, d \in Dates}

\* Mutant: the stored preference is looked at before the argument.
resolveProviderPreferenceFirst(providerArg, weatherProvider, sampled) ==
    IF weatherProvider /= NoProvider
    THEN [provider |-> weatherProvider, isDefaultProvider |-> providerArg = NoProvider]
    ELSE IF providerArg /= NoProvider
    THEN [provider |-> providerArg, isDefaultProvider |-> FALSE]
    ELSE [provider |-> sampled, isDefaultProvider |-> TRUE]

\* provider / isDefaultProvider after lines 179-183; sampled is the
\* _.sample of the default pool.
resolveProvider(providerArg, weatherProvider, sampled) ==
    IF providerArg = NoProvider
    THEN [provider |-> IF weatherProvider /= NoProvider THEN weatherProvider ELSE sampled,
          isDefaultProvider |-> TRUE]
    ELSE [provider |-> providerArg, isDefaultProvider |-> FALSE]

-----------------------------------------------------------------------------
(* The cache store (bitecache), collection "weather".                      *)

NoEntry == [data |-> Null, expires |-> NoDate]

\* cache.get("weather", id) at time t: null for a missing or expired entry.
cacheGet(c, id, t) ==
    IF c[id].expires = NoDate \/ c[id].expires <= t THEN Null ELSE c[id].data

\* Mutant: the write is lost.
cacheSetNothing(c, id, value, t) == c

\* cache.set("weather", id, value) at time t.
cacheSet(c, id, value, t) ==
    [c EXCEPT ![id] = [data |-> value, expires |-> t + cacheDuration]]

\* Mutant: the cached entry must always be of the resolved provider.
cacheUsableSameProvider(cached, isDefaultProvider, provider) ==
    truthy(cached) /\ cached.provider = provider

\* Mutant: any cached entry answers the call.
cacheUsableAnyEntry(cached, isDefaultProvider, provider) == truthy(cached)

\* if (cached && (isDefaultProvider || cached.provider == provider))
cacheUsable(cached, isDefaultProvider, provider) ==
    truthy(cached) /\ (isDefaultProvider \/ cached.provider = provider)

-----------------------------------------------------------------------------
(* Provider registry: eligibility and candidates.                          *)

\* The callback of this.providers.filter, lines 194-199.
isAvailable(p, hours, utcNow, st, disabled) ==
    /\ ~(hoursPast(p) < hours)
    /\ ~(hoursFuture(p) < hours * (0 - 1))
    /\ ~(disabled[p] /= NoDate /\ utcNow < disabled[p])
    /\ \/ st[p].requestCount < perDay(p)
       \/ st[p].lastRequest /= NoDate
            /\ diffHours(utcNow, st[p].lastRequest) > QuotaResetHours

\* Mutant: the filter lets every provider through.
availableOfAll(hours, utcNow, st, disabled) == providers

availableOf(hours, utcNow, st, disabled) ==
    {p \in providers : isAvailable(p, hours, utcNow, st, disabled)}

\* Mutant: the backup is sampled before the preferred provider is removed.
candidatesWithRepeat(available, provider) ==
    IF provider \in available
    THEN {<<provider, q>> : q \in available}
    ELSE {<<p, q>> : p \in available, q \in available}

\* Lines 212-218: every currentProviders the two random draws can give.
\* _.sample of an empty array is undefined, and is pushed all the same.
candidatesOf(available, provider) ==
    IF provider \in available
    THEN LET rest == available \ {provider}
         IN  IF rest = {} THEN {<<provider, Undefined>>}
             ELSE {<<provider, q>> : q \in rest}
    ELSE IF Cardinality(available) = 1
         THEN {<<p>> : p \in available}
         ELSE {<<p, q>> : p \in available, q \in available} \ {<<p, p>> : p \in available}

\* Mutant: startOf("day") for endOf("day").
disableUntilStartOfDay(utcNow) == (utcNow \div DayMs) * DayMs + HourMs

\* utcNow.endOf("day").add(1, "hour")
disableUntil(utcNow) == endOfDay(utcNow) + HourMs

\* Mutant: no status is taken for a reached quota.
isQuotaExceededNever(status) == FALSE

\* Mutant: every failure is taken for a reached quota.
isQuotaExceededAlways(status) == TRUE

\* ex.response && ex.response.status == 402
isQuotaExceeded(status) == status = PaymentRequired

\* Mutant: an off-by-one that never finds the second candidate.
hasSecondNever(currentProviders) == Len(currentProviders) > 2

\* if (currentProviders.length > 1)
hasSecond(currentProviders) == Len(currentProviders) > 1

-----------------------------------------------------------------------------
(* Provider adapter (StormGlass.getWeather).                               *)

\* Mutant: the distance is compared to the millisecond, not in whole hours.
outOfRangeExact(p, dDate, t) ==
    IF t < dDate THEN dDate - t > hoursFuture(p) * HourMs
    ELSE t - dDate > hoursPast(p) * HourMs

\* if (diffHours > maxHours) throw, with the adapter's own clock t.
outOfRange(p, dDate, t) ==
    LET hours == diffHours(t, dDate)
        absHours == IF hours < 0 THEN 0 - hours ELSE hours
        isFuture == t < dDate
        maxHours == IF isFuture THEN hoursFuture(p) ELSE hoursPast(p)
    IN  absHours > maxHours

\* Mutant: the catch block rethrows without counting.
countErrorNot(st, p) == st

\* Mutant: -- for ++.
countErrorDown(st, p) == [st EXCEPT ![p].errorCount = @ - 1]

\* catch (ex) { this.stats.errorCount++; throw ex }
countError(st, p) == [st EXCEPT ![p].errorCount = @ + 1]

\* this.apiRequest.schedule(...): the limiter counts the request.
countRequest(st, p, t) ==
    [st EXCEPT ![p].requestCount = @ + 1, ![p].lastRequest = t]

\* The adapter up to its await: the range check, then the scheduled request.
statsAfterInvoke(st, p, dDate, t) ==
    IF outOfRange(p, dDate, t) THEN countError(st, p) ELSE countRequest(st, p, t)

pendingOfInvoke(p, dDate, t) ==
    IF outOfRange(p, dDate, t) THEN "rangeError" ELSE "request"

\* How a scheduled request can end: a summary, a response without data for
\* the hour (toWeatherSummary returns undefined), HTTP 402, any other error
\* (transport, timeout, malformed response).
FailedOutcomes == {"empty", "quota", "transport"}

\* The HTTP status carried by the exception of an outcome (0: none).
statusOf(outcome) == IF outcome = "quota" THEN PaymentRequired ELSE 0

\* The adapter after its await: errors are counted in its catch block; an
\* empty result is returned, not thrown, and is not counted.
statsAfterSettle(st, p, outcome) ==
    IF outcome \in {"quota", "transport"} THEN countError(st, p) ELSE st

-----------------------------------------------------------------------------
(* One getLocationWeather call: its arguments, its locals, where it is     *)
(* suspended, and how it ended.                                            *)
(*   pc       "idle", "first" (awaiting currentProviders[0].getWeather),   *)
(*            "second" (awaiting currentProviders[1].getWeather), "done"   *)
(*   healthy  the providers whose vendor answers this query with a         *)
(*            summary; the others fail it                                  *)
(*   pending  what the awaited adapter call is doing: a scheduled          *)
(*            "request", or a "rangeError" already thrown                  *)
(*   ended    "returned" or "threw" once pc = "done"                       *)
(*   invoked  the providers whose getWeather this call has called          *)
(*   attempts how each of those calls ended                                *)
(*   serial   the number of the call, counted from 1                       *)
(*   errorsBefore  every provider's errorCount when the call started       *)
(*   quotaAtStart  quotaUntil when the call started                        *)
(*   cacheRead     whether the call has called cache.get                   *)

Calls == {1, 2}

IdleCall ==
    [pc |-> "idle", coordinates |-> NullCoordinates, dDate |-> NoDate,
     providerArg |-> NoProvider, weatherProvider |-> NoProvider, healthy |-> {},
     provider |-> NoProvider, isDefaultProvider |-> FALSE, cacheId |-> << >>,
     utcNow |-> NoDate, availableProviders |-> {}, currentProviders |-> << >>,
     providerModule |-> NoProvider, pending |-> "none", result |-> UndefinedResult,
     ended |-> "none", invoked |-> << >>, attempts |-> << >>,
     serial |-> 0, errorsBefore |-> [p \in providers |-> 0],
     quotaAtStart |-> [p \in providers |-> NoDate], cacheRead |-> FALSE]

\* The explicit provider argument and the user's stored preference.
ProviderArgs == {NoProvider, "stormglass"}
WeatherProviders == {NoProvider, "tomorrow"}

-----------------------------------------------------------------------------
(* One getActivityWeather call: the activity and the user, where the call  *)
(* is suspended, and how it ended.                                         *)
(*   pc        "idle", "start", "end", "mid" (awaiting the getLocationWeather *)
(*             of that point), "done"                                      *)
(*   weather   the ActivityWeather being filled                            *)
(*   ended     "returned" or "threw" once pc = "done"                      *)
(*   gave      "weather" or "null": what was returned                      *)
(*   asked     the getLocationWeather calls made, with their arguments     *)
(*   answered  how each of those calls ended                               *)

\* Mutant: any value counts as a location.
hasCoordinatesAlways(latlng) == TRUE

\* activity.locationStart && activity.locationStart.length > 0
hasCoordinates(latlng) == Len(latlng) > 0

\* toStravaActivity: the fields of a StravaActivity that the weather reads,
\* from the data of the Strava API; elapsed_time is in seconds.
toStravaActivity(start_date, elapsed_time, start_latlng, end_latlng) ==
    [dateStart |-> start_date,
     totalTime |-> elapsed_time,
     locationStart |-> start_latlng,
     locationEnd |-> end_latlng,
     hasLocation |-> hasCoordinates(start_latlng) \/ hasCoordinates(end_latlng),
     dateEnd |-> IF elapsed_time /= 0 THEN start_date + elapsed_time * 1000 ELSE NoDate]

\* if (user.isPro && activity.totalTime > 10800)
DurationThreshold == 10800

\* this.maxHoursPast after init: the largest hoursPast of the providers.
maxHoursPast ==
    CHOOSE h \in {hoursPast(p) : p \in providers} : \A p \in providers : hoursPast(p) <= h

EmptyWeather == [start |-> UndefinedResult, end |-> UndefinedResult, mid |-> UndefinedResult]

IdleActivity ==
    [pc |-> "idle", dateStart |-> NoDate, dateEnd |-> NoDate, totalTime |-> 0,
     locationStart |-> NullCoordinates, locationEnd |-> NullCoordinates,
     locationMid |-> NullCoordinates, hasLocation |-> FALSE, isPro |-> FALSE,
     weatherProvider |-> NoProvider, weather |-> EmptyWeather,
     ended |-> "none", gave |-> "none", asked |-> << >>, answered |-> << >>]

-----------------------------------------------------------------------------
(* Weather.init.                                                           *)

\* settings.weather[provider.name] of every known provider: whether it is
\* disabled, and whether its secret is set.
ProviderSettings == [providers -> [disabled : BOOLEAN, secret : BOOLEAN]]
EnabledSettings == [p \in providers |-> [disabled |-> FALSE, secret |-> TRUE]]

\* provider.stats = {requestCount: 0, errorCount: 0, lastRequest: null}
NewStats == [requestCount |-> 0, errorCount |-> 0, lastRequest |-> NoDate]

\* The Weather object as constructed: providers = [], maxHoursPast = 0.
Constructed(settings) ==
    [pc |-> "constructed", settings |-> settings, providers |-> << >>, maxHoursPast |-> 0]

\* Mutant: the secret is not looked at.
isConfiguredWithoutSecret(pSettings) == ~pSettings.disabled

\* Lines 59-68: neither of the two "continue" is taken.
isConfigured(pSettings) == ~pSettings.disabled /\ pSettings.secret

\* Lines 70-77: the provider gets its stats, joins the list and may raise
\* maxHoursPast.
register(reg, provider) ==
    [reg EXCEPT !.providers = Append(@, [name |-> provider, stats |-> NewStats]),
                !.maxHoursPast = IF hoursPast(provider) > @ THEN hoursPast(provider) ELSE @]

\* Lines 55-78: the loop over the known providers, from the i-th on.
RECURSIVE initFrom(_, _)
initFrom(i, reg) ==
    IF i > Len(all) THEN [reg EXCEPT !.pc = "ready"]
    ELSE IF isConfigured(reg.settings[all[i]])
    THEN initFrom(i + 1, register(reg, all[i]))
    ELSE initFrom(i + 1, reg)

\* The Weather object after init with every modelled provider enabled and
\* keyed.
Registered == initFrom(1, Constructed(EnabledSettings))

-----------------------------------------------------------------------------
(* StormGlass.toWeatherSummary.                                            *)

\* undefined and null of a measurement, or of one source's value of it.
Absent == 0 - 1000
JsNull == 0 - 1001

\* What a source may report of a measurement.
Measurements == {Absent, JsNull, 0, 5, 7}

\* timeData.airTemperature: the values by source, or no such property.
NoData == [present |-> FALSE, sg |-> Absent, dwd |-> Absent, noaa |-> Absent]
Payloads ==
    {NoData} \cup [present : {TRUE}, sg : Measurements, dwd : Measurements, noaa : Measurements]

\* "!v" of a value: undefined, null and 0 are falsy.
falsy(v) == v \in {Absent, JsNull, 0}

\* a || b
orElse(a, b) == IF falsy(a) THEN b ELSE a

\* Lines 132-135: if (!data) return null; return data.sg || data.dwd || data.noaa
getDataProperty(data) ==
    IF ~data.present THEN JsNull
    ELSE orElse(orElse(data.sg, data.dwd), data.noaa)

IdleReading == [pc |-> "idle", data |-> NoData, temperature |-> Absent]

Init ==
    /\ now = StartOfTime
    /\ stats = [p \in providers |-> [requestCount |-> 0, errorCount |-> 0, lastRequest |-> NoDate]]
    /\ disabledTillDate = [p \in providers |-> NoDate]
    /\ cache = [id \in CacheIds |-> NoEntry]
    /\ calls = [c \in Calls |-> IdleCall]
    /\ started = 0
    /\ advanced = 0
    /\ quotaUntil = [p \in providers |-> NoDate]
    /\ activity = IdleActivity
    /\ registry = Registered
    /\ reading = IdleReading

errorsOf(st) == [p \in providers |-> st[p].errorCount]

\* return of the call, or the exception that leaves it.
returned(call, value) == [call EXCEPT !.pc = "done", !.ended = "returned", !.result = value]
threw(call) == [call EXCEPT !.pc = "done", !.ended = "threw"]

canStart(c, limit) ==
    /\ calls[c].pc \in {"idle", "done"}
    /\ started < limit

\* Mutant: the arguments are validated after the cache was looked up.
StartMissingLate(c, limit, Coordinates, Ds) ==
    /\ canStart(c, limit)
    /\ \E coordinates \in Coordinates, dDate \in Ds :
        /\ isMissing(coordinates, dDate)
        /\ calls' = [calls EXCEPT ![c] =
                returned([IdleCall EXCEPT !.coordinates = coordinates, !.dDate = dDate,
                                          !.utcNow = now, !.serial = started + 1,
                                          !.errorsBefore = errorsOf(stats),
                                          !.quotaAtStart = quotaUntil,
                                          !.cacheRead = TRUE], Null)]
    /\ started' = started + 1
    /\ UNCHANGED <<now, stats, disabledTillDate, cache, advanced, quotaUntil, registry, reading>>

\* Lines 157-162: missing coordinates or date.
StartMissing(c, limit, Coordinates, Ds) ==
    /\ canStart(c, limit)
    /\ \E coordinates \in Coordinates, dDate \in Ds :
        /\ isMissing(coordinates, dDate)
        /\ calls' = [calls EXCEPT ![c] =
                returned([IdleCall EXCEPT !.coordinates = coordinates, !.dDate = dDate,
                                          !.utcNow = now, !.serial = started + 1,
                                          !.errorsBefore = errorsOf(stats),
                        !.quotaAtStart = quotaUntil], Null)]
    /\ started' = started + 1
    /\ UNCHANGED <<now, stats, disabledTillDate, cache, advanced, quotaUntil, registry, reading>>

\* Lines 165-221: from the rounding to the await of the first adapter call.
\* Vendors are the providers whose vendor may answer the query.
StartLookup(c, limit, Coordinates, Ds, Args, Preferences, Vendors) ==
    /\ canStart(c, limit)
    /\ \E coordinates \in Coordinates, dDate \in Ds, providerArg \in Args,
          weatherProvider \in Preferences, sampled \in defaultProviders :
        LET rounded == roundCoordinates(coordinates)
            utcNow == now
            hours == diffHours(utcNow, dDate)
            resolved == resolveProvider(providerArg, weatherProvider, sampled)
            cacheId == cacheIdOf(rounded, dDate)
            cached == cacheGet(cache, cacheId, now)
            available == availableOf(hours, utcNow, stats, disabledTillDate)
            call == [IdleCall EXCEPT !.coordinates = coordinates, !.dDate = dDate,
                        !.providerArg = providerArg, !.weatherProvider = weatherProvider,
                        !.provider = resolved.provider,
                        !.isDefaultProvider = resolved.isDefaultProvider,
                        !.cacheId = cacheId, !.utcNow = utcNow, !.serial = started + 1,
                        !.errorsBefore = errorsOf(stats),
                        !.quotaAtStart = quotaUntil, !.cacheRead = TRUE]
        IN  /\ ~isMissing(coordinates, dDate)
            /\ IF cacheUsable(cached, resolved.isDefaultProvider, resolved.provider)
               THEN /\ calls' = [calls EXCEPT ![c] = returned(call, cached)]
                    /\ UNCHANGED stats
               ELSE IF available = {}
               THEN /\ calls' = [calls EXCEPT ![c] =
                            returned([call EXCEPT !.availableProviders = available], Null)]
                    /\ UNCHANGED stats
               ELSE \E currentProviders \in candidatesOf(available, resolved.provider),
                       healthy \in SUBSET (available \cap Vendors) :
                    LET first == currentProviders[1]
                    IN  /\ calls' = [calls EXCEPT ![c] =
                                [call EXCEPT !.pc = "first", !.healthy = healthy,
                                    !.availableProviders = available,
                                    !.currentProviders = currentProviders,
                                    !.providerModule = first,
                                    !.pending = pendingOfInvoke(first, dDate, now),
                                    !.invoked = <<first>>]]
                        /\ stats' = statsAfterInvoke(stats, first, dDate, now)
    /\ started' = started + 1
    /\ UNCHANGED <<now, disabledTillDate, cache, advanced, quotaUntil, registry, reading>>

\* How the awaited adapter call of a call can end.
outcomesOf(call) ==
    IF call.pending = "rangeError" THEN {"range"}
    ELSE IF call.providerModule \in call.healthy THEN {"ok"}
    ELSE FailedOutcomes

\* Mutant: the retry runs whatever the first call gave.
entersCatchAlways(outcome) == TRUE

\* Lines 221-228: the await throws, or the result is falsy and line 224
\* throws; either way control enters the catch block.
entersCatch(outcome) == outcome /= "ok"

\* Lines 221-258 after the first adapter call settles: success, or the catch
\* block up to the await of the second adapter call.
FirstSettled(c) ==
    /\ calls[c].pc = "first"
    /\ \E outcome \in outcomesOf(calls[c]) :
        LET call == [calls[c] EXCEPT !.pending = "none",
                        !.attempts = Append(@, [provider |-> calls[c].providerModule, outcome |-> outcome])]
            p == call.providerModule
            settled == statsAfterSettle(stats, p, outcome)
            result == Summary(p, textOf(call.serial))
            disabled == IF isQuotaExceeded(statusOf(outcome))
                        THEN [disabledTillDate EXCEPT ![p] = disableUntil(call.utcNow)]
                        ELSE disabledTillDate
        IN  /\ IF ~entersCatch(outcome)
               THEN /\ calls' = [calls EXCEPT ![c] = returned(call, result)]
                    /\ disabledTillDate' = [disabledTillDate EXCEPT ![p] = NoDate]
                    /\ cache' = cacheSet(cache, call.cacheId, result, now)
                    /\ stats' = settled
               ELSE IF hasSecond(call.currentProviders)
               THEN LET second == call.currentProviders[2]
                    IN  IF second = Undefined
                        THEN /\ calls' = [calls EXCEPT ![c] = threw([call EXCEPT !.providerModule = second])]
                             /\ disabledTillDate' = disabled
                             /\ stats' = settled
                             /\ UNCHANGED cache
                        ELSE /\ calls' = [calls EXCEPT ![c] =
                                   [call EXCEPT !.pc = "second", !.providerModule = second,
                                       !.pending = pendingOfInvoke(second, call.dDate, now),
                                       !.invoked = Append(@, second)]]
                             /\ disabledTillDate' = disabled
                             /\ stats' = statsAfterInvoke(settled, second, call.dDate, now)
                             /\ UNCHANGED cache
               ELSE /\ calls' = [calls EXCEPT ![c] = threw(call)]
                    /\ disabledTillDate' = disabled
                    /\ cache' = cacheSet(cache, call.cacheId, UndefinedResult, now)
                    /\ stats' = settled
            /\ quotaUntil' = IF entersCatch(outcome) /\ isQuotaExceeded(statusOf(outcome))
                             THEN [quotaUntil EXCEPT ![p] = disableUntil(call.utcNow)]
                             ELSE quotaUntil
    /\ UNCHANGED <<now, started, advanced, activity, registry, reading>>

\* Lines 244-258 after the second adapter call settles.
SecondSettled(c) ==
    /\ calls[c].pc = "second"
    /\ \E outcome \in outcomesOf(calls[c]) :
        LET call == [calls[c] EXCEPT !.pending = "none",
                        !.attempts = Append(@, [provider |-> calls[c].providerModule, outcome |-> outcome])]
            p == call.providerModule
            result == Summary(p, textOf(call.serial))
        IN  /\ stats' = statsAfterSettle(stats, p, outcome)
            /\ IF outcome = "ok"
               THEN /\ calls' = [calls EXCEPT ![c] = returned(call, result)]
                    /\ cache' = cacheSet(cache, call.cacheId, result, now)
               ELSE IF outcome = "empty"
               THEN /\ calls' = [calls EXCEPT ![c] = threw(call)]
                    /\ cache' = cacheSet(cache, call.cacheId, UndefinedResult, now)
               ELSE /\ calls' = [calls EXCEPT ![c] = returned(call, Null)]
                    /\ UNCHANGED cache
    /\ UNCHANGED <<now, disabledTillDate, started, advanced, quotaUntil, activity, registry, reading>>

\* The clock moves on.
TimeSteps == {2 * HourMs, 17 * HourMs}

\* (Only while a call can still see it: one in flight, or one yet to start.)
Advance(limit) ==
    /\ advanced < MaxAdvances
    /\ \E c \in Calls : calls[c].pc \in {"first", "second"} \/ started < limit
    /\ \E d \in TimeSteps : now' = now + d
    /\ advanced' = advanced + 1
    /\ UNCHANGED <<stats, disabledTillDate, cache, calls, started, quotaUntil, activity, registry, reading>>

-----------------------------------------------------------------------------
(* getActivityWeather.                                                     *)

\* Start dates and elapsed times (seconds) of the activities: two hours
\* ending half an hour ago, exactly three hours, four hours, and one hour
\* ending 168.5 hours ago.
ActivityTimes ==
    {<<EarlierDate, 7200>>, <<ThreeHoursDate, 10800>>, <<LongAgoDate, 14400>>,
     <<OlderDate, 3600>>}

\* The getLocationWeather calls of one getActivityWeather call.
LookupLimit == MaxCalls + 1

\* The vendors that may answer a query of the activity.
ActivityVendors == {"stormglass", "weatherapi"}

\* this.getLocationWeather(user, coordinates, dDate), up to its first await.
Lookup(coordinates, dDate) ==
    \/ StartMissing(1, LookupLimit, {coordinates}, {dDate})
    \/ StartLookup(1, LookupLimit, {coordinates}, {dDate}, {NoProvider},
                   {activity.weatherProvider}, ActivityVendors)

asking(a, phase, coordinates, dDate) ==
    [a EXCEPT !.pc = phase,
              !.asked = Append(@, [phase |-> phase, coordinates |-> coordinates, dDate |-> dDate])]

\* Line 110 and line 111: the dates of the start and of the end lookup.
dateStartOf(a) == a.dateStart
dateEndOf(a) == a.dateStart
\* Lines 125-126: the date of the midpoint lookup.
dateMidOf(a) == a.dateStart + (a.totalTime \div 2) * 1000

\* Mutant: >= for > in the test of the duration.
wantsMidAtThreshold(a) == a.isPro /\ a.totalTime >= DurationThreshold

\* Line 123: the midpoint is for PRO users and long activities.
wantsMid(a) == a.isPro /\ a.totalTime > DurationThreshold

\* Mutant: the activity's age is never checked.
happenedTooLongAgoNever(dateEnd, t) == FALSE

\* Line 105: minDate.isAfter(activity.dateEnd); an activity without dateEnd
\* compares with the present and passes.
happenedTooLongAgo(dateEnd, t) ==
    dateEnd /= NoDate /\ t - maxHoursPast * HourMs > dateEnd

\* Mutant: || for && in the check of the result.
finishedBoth(a) ==
    IF ~truthy(a.weather.start) \/ ~truthy(a.weather.end)
    THEN [a EXCEPT !.pc = "done", !.ended = "returned", !.gave = "null"]
    ELSE [a EXCEPT !.pc = "done", !.ended = "returned", !.gave = "weather"]

\* Mutant: the midpoint counts in the check of the result.
finishedAnyOf(a) ==
    IF ~truthy(a.weather.start) /\ ~truthy(a.weather.end) /\ ~truthy(a.weather.mid)
    THEN [a EXCEPT !.pc = "done", !.ended = "returned", !.gave = "null"]
    ELSE [a EXCEPT !.pc = "done", !.ended = "returned", !.gave = "weather"]

\* Mutant: the error of line 135 leaves the call.
finishedUncaught(a) ==
    IF ~truthy(a.weather.start) /\ ~truthy(a.weather.end)
    THEN [a EXCEPT !.pc = "done", !.ended = "threw"]
    ELSE [a EXCEPT !.pc = "done", !.ended = "returned", !.gave = "weather"]

\* Lines 134-146: the check of the result, the return, the outer catch.
finished(a) ==
    IF ~truthy(a.weather.start) /\ ~truthy(a.weather.end)
    THEN [a EXCEPT !.pc = "done", !.ended = "returned", !.gave = "null"]
    ELSE [a EXCEPT !.pc = "done", !.ended = "returned", !.gave = "weather"]

\* Lines 96-116: up to the await of the start lookup.
ActivityStart ==
    /\ activity.pc = "idle"
    /\ \E times \in ActivityTimes, start_latlng \in {London1, NullCoordinates},
          end_latlng \in {Lisbon, NullCoordinates}, locationMid \in {London2, NullCoordinates},
          isPro \in BOOLEAN :
        LET data == toStravaActivity(times[1], times[2], start_latlng, end_latlng)
            a == [IdleActivity EXCEPT !.dateStart = data.dateStart, !.dateEnd = data.dateEnd,
                        !.totalTime = data.totalTime, !.locationStart = data.locationStart,
                        !.locationEnd = data.locationEnd, !.hasLocation = data.hasLocation,
                        !.locationMid = locationMid, !.isPro = isPro,
                        !.weatherProvider = "stormglass"]
        IN  IF ~a.hasLocation \/ happenedTooLongAgo(a.dateEnd, now)
            THEN /\ activity' = [a EXCEPT !.pc = "done", !.ended = "returned", !.gave = "null"]
                 /\ UNCHANGED <<now, stats, disabledTillDate, cache, calls, started,
                                advanced, quotaUntil, registry, reading>>
            ELSE /\ activity' = asking(a, "start", a.locationStart, dateStartOf(a))
                 /\ Lookup(a.locationStart, dateStartOf(a))

\* The awaited getLocationWeather has ended: the assignment of its result,
\* or the catch of its exception, and the code up to the next await or to
\* the return (lines 116-146).
ActivityResume ==
    /\ activity.pc \in {"start", "end", "mid"}
    /\ calls[1].pc = "done"
    /\ LET phase == activity.pc
           call == calls[1]
           answer == [phase |-> phase, ended |-> call.ended, result |-> call.result,
                      invoked |-> call.invoked, cacheRead |-> call.cacheRead]
           assigned == IF call.ended = "returned"
                       THEN [activity.weather EXCEPT ![phase] = call.result]
                       ELSE activity.weather
           a == [activity EXCEPT !.weather = assigned, !.answered = Append(@, answer)]
       IN  IF phase = "start" /\ call.ended = "returned"
           THEN /\ activity' = asking(a, "end", a.locationEnd, dateEndOf(a))
                /\ Lookup(a.locationEnd, dateEndOf(a))
           ELSE IF phase \in {"start", "end"} /\ wantsMid(a)
           THEN /\ activity' = asking(a, "mid", a.locationMid, dateMidOf(a))
                /\ Lookup(a.locationMid, dateMidOf(a))
           ELSE /\ activity' = finished(a)
                /\ UNCHANGED <<now, stats, disabledTillDate, cache, calls, started,
                               advanced, quotaUntil, registry, reading>>

\* One getActivityWeather call and the getLocationWeather calls it makes.
ActivityNext ==
    \/ ActivityStart
    \/ ActivityResume
    \/ FirstSettled(1)
    \/ SecondSettled(1)
    \/ Advance(LookupLimit)

ActivitySpec == Init /\ [][ActivityNext]_vars

\* The same, where every adapter call eventually completes (with a result,
\* an error or a timeout) and the event loop eventually resumes the call
\* whose awaited promise has settled.
ActivityLiveSpec ==
    /\ Init
    /\ [][ActivityNext]_vars
    /\ WF_vars(FirstSettled(1))
    /\ WF_vars(SecondSettled(1))
    /\ WF_vars(ActivityResume)

\* One call at a time, MaxCalls calls one after the other.
Next ==
    \/ StartMissing(1, MaxCalls, {London1} \cup MalformedCoordinates, {RecentDate, NoDate})
         /\ UNCHANGED activity
    \/ StartLookup(1, MaxCalls, {London1, London2}, {RecentDate, OldDate},
                   ProviderArgs, WeatherProviders, providers)
         /\ UNCHANGED activity
    \/ FirstSettled(1)
    \/ SecondSettled(1)
    \/ Advance(MaxCalls)

Spec == Init /\ [][Next]_vars

\* One call at a time: the first at one London pair, the later ones at the
\* other, all about the same instant and without an explicit provider.
RoundingNext ==
    \/ StartLookup(1, MaxCalls, IF started = 0 THEN {London1} ELSE {London2},
                   {RecentDate}, {NoProvider}, WeatherProviders, providers)
         /\ UNCHANGED activity
    \/ FirstSettled(1)
    \/ SecondSettled(1)
    \/ Advance(MaxCalls)

RoundingSpec == Init /\ [][RoundingNext]_vars

\* Calls that overlap: each slot runs one call at a time, the slots
\* interleave at the awaits.  Every call asks for the same place and instant
\* and names the same provider.
ConcurrentNext ==
    \/ \E c \in Calls :
        \/ StartLookup(c, MaxCalls + 1, {London1}, {EarlierDate}, {"stormglass"}, {NoProvider},
                       providers)
             /\ UNCHANGED activity
        \/ FirstSettled(c)
        \/ SecondSettled(c)
    \/ Advance(MaxCalls + 1)

ConcurrentSpec == Init /\ [][ConcurrentNext]_vars

\* One call at a time, every call about the same place and instant, with or
\* without an explicit provider.
SameKeyNext ==
    \/ StartLookup(1, MaxCalls, {London1}, {EarlierDate}, ProviderArgs, {NoProvider},
                   providers)
         /\ UNCHANGED activity
    \/ FirstSettled(1)
    \/ SecondSettled(1)
    \/ Advance(MaxCalls)

SameKeySpec == Init /\ [][SameKeyNext]_vars

\* One call at a time, each about half an hour before the model starts, at
\* one of two places, for a user who prefers weatherapi (one request a day);
\* weatherapi's vendor is the one that may answer.
QuotaNext ==
    \/ StartLookup(1, LookupLimit, {London1, Lisbon}, {RecentDate}, {NoProvider},
                   {"weatherapi"}, {"weatherapi"})
         /\ UNCHANGED activity
    \/ FirstSettled(1)
    \/ SecondSettled(1)
    \/ Advance(LookupLimit)

QuotaSpec == Init /\ [][QuotaNext]_vars

-----------------------------------------------------------------------------
(* Weather.init, from the object as constructed.                           *)

\* The Weather object is constructed, under any settings of the providers;
\* no call has been made.
Startup ==
    /\ now = StartOfTime
    /\ stats = [p \in providers |-> NewStats]
    /\ disabledTillDate = [p \in providers |-> NoDate]
    /\ cache = [id \in CacheIds |-> NoEntry]
    /\ calls = [c \in Calls |-> IdleCall]
    /\ started = 0
    /\ advanced = 0
    /\ quotaUntil = [p \in providers |-> NoDate]
    /\ activity = IdleActivity
    /\ registry \in {Constructed(settings) : settings \in ProviderSettings}
    /\ reading = IdleReading

\* Lines 50-85: init has no await; it runs from the first line to the last.
WeatherInit ==
    /\ registry.pc = "constructed"
    /\ registry' = initFrom(1, registry)
    /\ UNCHANGED <<now, stats, disabledTillDate, cache, calls, started, advanced, quotaUntil,
                   activity, reading>>

InitNext == WeatherInit

InitSpec == Startup /\ [][InitNext]_vars

-----------------------------------------------------------------------------
(* StormGlass.toWeatherSummary, on the entry of the requested hour.        *)

\* The vendor has answered: timeData.airTemperature is any of the payloads.
Received ==
    /\ now = StartOfTime
    /\ stats = [p \in providers |-> NewStats]
    /\ disabledTillDate = [p \in providers |-> NoDate]
    /\ cache = [id \in CacheIds |-> NoEntry]
    /\ calls = [c \in Calls |-> IdleCall]
    /\ started = 0
    /\ advanced = 0
    /\ quotaUntil = [p \in providers |-> NoDate]
    /\ activity = IdleActivity
    /\ registry = Registered
    /\ reading \in {[IdleReading EXCEPT !.pc = "payload", !.data = data] : data \in Payloads}

\* Lines 100-121: temperature: this.getDataProperty(timeData.airTemperature)
ToWeatherSummary ==
    /\ reading.pc = "payload"
    /\ reading' = [reading EXCEPT !.pc = "summary",
                                  !.temperature = getDataProperty(reading.data)]
    /\ UNCHANGED <<now, stats, disabledTillDate, cache, calls, started, advanced, quotaUntil,
                   activity, registry>>

SummaryNext == ToWeatherSummary

SummarySpec == Received /\ [][SummaryNext]_vars

-----------------------------------------------------------------------------
(* Properties.                                                             *)

done(c) == calls[c].pc = "done"
failed(attempt) == attempt.outcome /= "ok"
gaveSummary(c) == calls[c].ended = "returned" /\ truthy(calls[c].result)
gaveNull(c) == calls[c].ended = "returned" /\ calls[c].result = Null

\* C1: getLocationWeather never raises: whatever the arguments, the registry
\* and the outcomes of its adapter calls, a call that has ended has returned
\* (a summary or null) and has not thrown.
C1_NeverRaises ==
    \A c \in Calls : done(c) => calls[c].ended = "returned"

\* C2: with exactly one eligible provider (preferred or not), when that
\* provider's adapter fails the call returns null.
C2_SingleCandidateFailureReturnsNull ==
    \A c \in Calls :
        (/\ done(c)
         /\ Cardinality(calls[c].availableProviders) = 1
         /\ Len(calls[c].attempts) >= 1
         /\ failed(calls[c].attempts[1]))
        => gaveNull(c)

\* C3: with exactly two eligible providers, the preferred one among them,
\* when the preferred provider's adapter fails with a transport error and the
\* other provider's adapter succeeds, the call returns a summary whose
\* provider is the other provider, and the preferred provider's errorCount
\* is one more than when the call started.
fellBackAfterTransportError(c) ==
    /\ done(c)
    /\ Cardinality(calls[c].availableProviders) = 2
    /\ calls[c].provider \in calls[c].availableProviders
    /\ Len(calls[c].attempts) = 2
    /\ calls[c].attempts[1] = [provider |-> calls[c].provider, outcome |-> "transport"]
    /\ calls[c].attempts[2].outcome = "ok"

C3_FallbackDeterminism ==
    \A c \in Calls :
        fellBackAfterTransportError(c)
        => /\ gaveSummary(c)
           /\ calls[c].availableProviders = {calls[c].provider, calls[c].result.provider}
           /\ calls[c].result.provider /= calls[c].provider
           /\ calls[c].result.provider = calls[c].attempts[2].provider
           /\ stats[calls[c].provider].errorCount = calls[c].errorsBefore[calls[c].provider] + 1

C3_Witness == fellBackAfterTransportError(1)

\* C4: one call invokes at most two adapters, and two invocations are of two
\* different providers; there is no third attempt, however many providers
\* are eligible and whatever fails.
C4_AtMostTwoAttempts ==
    \A c \in Calls :
        /\ Len(calls[c].invoked) <= 2
        /\ Len(calls[c].invoked) = 2 => calls[c].invoked[1] /= calls[c].invoked[2]

C4_Witness ==
    /\ done(1)
    /\ Cardinality(calls[1].availableProviders) = 3
    /\ Len(calls[1].attempts) = 2
    /\ failed(calls[1].attempts[1])
    /\ failed(calls[1].attempts[2])

\* C5: the second candidate's adapter is invoked only once the first
\* candidate's call has ended in a failure: at most one adapter call of a
\* getLocationWeather call is in flight, a second invocation implies a
\* settled and failed first one, and a first success is the only attempt.
C5_SequentialFallback ==
    \A c \in Calls :
        /\ Len(calls[c].invoked) - Len(calls[c].attempts) <= 1
        /\ Len(calls[c].invoked) = 2
            => Len(calls[c].attempts) >= 1 /\ failed(calls[c].attempts[1])
        /\ (Len(calls[c].attempts) >= 1 /\ ~failed(calls[c].attempts[1]))
            => Len(calls[c].invoked) = 1

C5_Witness ==
    /\ calls[1].pc = "second"
    /\ Len(calls[1].invoked) = 2
    /\ Len(calls[1].attempts) = 1
    /\ failed(calls[1].attempts[1])

\* A provider that is healthy for a call: its vendor answers the query, and
\* the adapter, when the call invoked it, found the date in its range.
answers(c, p) ==
    /\ p \in calls[c].healthy
    /\ \A i \in 1..Len(calls[c].attempts) :
        calls[c].attempts[i].provider = p => calls[c].attempts[i].outcome /= "range"

newCall(c) == started' = started + 1 /\ calls'[c].serial = started'

\* The new call of such a step was answered from the cache with what the
\* call before it gave, and no adapter was invoked.
answeredFromCache(c) ==
    /\ calls'[c].pc = "done"
    /\ calls'[c].ended = "returned"
    /\ calls'[c].result = calls[c].result
    /\ calls'[c].invoked = << >>
    /\ stats' = stats

\* C7: of two consecutive calls with the same rounded coordinates and the
\* same instant, both without an explicit provider, the first of which gave
\* a summary, the second (started while the entry lives) gives the same
\* summary, provider and fields, and invokes no adapter.
C7_CacheIdempotence ==
    [][\A c \in Calls :
        (/\ done(c) /\ gaveSummary(c) /\ calls[c].isDefaultProvider
         /\ newCall(c)
         /\ calls'[c].cacheId = calls[c].cacheId
         /\ calls'[c].isDefaultProvider
         /\ now < cache[calls[c].cacheId].expires)
        => answeredFromCache(c)]_vars

C7_Witness ==
    /\ done(1) /\ gaveSummary(1)
    /\ calls[1].serial = 2
    /\ calls[1].isDefaultProvider
    /\ calls[1].invoked = << >>
    /\ calls[1].result.summary = textOf(1)

\* The claim's own notion of "equal once rounded to 4 decimals": the two
\* values of each component have the same nearest multiple of 0.0001 (ties
\* away from zero), stated on the claim's side and not through the code's
\* rounding.
nearestFourDecimals(x) ==
    IF x >= 0 THEN (x + 5) \div 10 ELSE 0 - ((5 - x) \div 10)

equalAtFourDecimals(a, b) ==
    /\ Len(a) = 2 /\ Len(b) = 2
    /\ \A i \in 1..2 : nearestFourDecimals(a[i]) = nearestFourDecimals(b[i])

\* C8: two coordinate pairs that differ but are equal once each component
\* is rounded to 4 decimals give, for the same instant, the same cache key:
\* after a call at one pair gave a summary, a call at the other pair (no
\* explicit provider, the entry still alive) is a cache hit.
C8_RoundedCoordinatesShareKey ==
    [][\A c \in Calls :
        (/\ done(c) /\ gaveSummary(c)
         /\ newCall(c)
         /\ calls'[c].coordinates /= calls[c].coordinates
         /\ ~isMissing(calls'[c].coordinates, calls'[c].dDate)
         /\ equalAtFourDecimals(calls'[c].coordinates, calls[c].coordinates)
         /\ calls'[c].dDate = calls[c].dDate
         /\ calls'[c].isDefaultProvider
         /\ now < cache[calls[c].cacheId].expires)
        => calls'[c].cacheId = calls[c].cacheId /\ answeredFromCache(c)]_vars

C8_Witness ==
    /\ done(1) /\ gaveSummary(1)
    /\ calls[1].serial = 2
    /\ calls[1].coordinates = London2
    /\ calls[1].invoked = << >>
    /\ calls[1].result.summary = textOf(1)
    /\ cache[cacheIdOf(roundCoordinates(London1), RecentDate)].data = calls[1].result

\* The call of slot c has ended, had one eligible provider, and that
\* provider's adapter failed with HTTP 402.
quotaFailedAlone(c) ==
    /\ done(c)
    /\ Cardinality(calls[c].availableProviders) = 1
    /\ Len(calls[c].attempts) >= 1
    /\ calls[c].attempts[1].outcome = "quota"

\* No provider but p passes the eligibility filter for dDate now.
noOtherEligible(p, dDate) ==
    \A q \in providers \ {p} :
        ~isAvailable(q, diffHours(now, dDate), now, stats, disabledTillDate)

\* C9: when the only eligible provider's adapter fails with HTTP 402, its
\* disabledTillDate is the end of the day the call started in plus one hour,
\* which is later than that end of day; and the same call made again before
\* that date, no other provider being eligible, returns null and invokes no
\* adapter.
C9_QuotaExceeded ==
    /\ [](\A c \in Calls :
            quotaFailedAlone(c)
            => LET p == calls[c].attempts[1].provider
               IN  /\ disabledTillDate[p] = endOfDay(calls[c].utcNow) + HourMs
                   /\ disabledTillDate[p] > endOfDay(calls[c].utcNow))
    /\ [][\A c \in Calls :
            (/\ quotaFailedAlone(c)
             /\ newCall(c)
             /\ calls'[c].coordinates = calls[c].coordinates
             /\ calls'[c].dDate = calls[c].dDate
             /\ calls'[c].providerArg = calls[c].providerArg
             /\ calls'[c].weatherProvider = calls[c].weatherProvider
             /\ now < disabledTillDate[calls[c].attempts[1].provider]
             /\ noOtherEligible(calls[c].attempts[1].provider, calls[c].dDate))
            => /\ calls'[c].pc = "done"
               /\ calls'[c].ended = "returned"
               /\ calls'[c].result = Null
               /\ calls'[c].invoked = << >>
               /\ stats' = stats]_vars

C9_Witness ==
    /\ done(1) /\ gaveNull(1)
    /\ calls[1].serial = 2
    /\ ~isMissing(calls[1].coordinates, calls[1].dDate)
    /\ calls[1].invoked = << >>
    /\ \E p \in providers :
        /\ calls[1].quotaAtStart[p] /= NoDate
        /\ calls[1].utcNow < calls[1].quotaAtStart[p]
        /\ disabledTillDate[p] = calls[1].quotaAtStart[p]
        /\ isAvailable(p, diffHours(calls[1].utcNow, calls[1].dDate), calls[1].utcNow,
                       stats, [q \in providers |-> NoDate])
        /\ \A q \in providers \ {p} :
            ~isAvailable(q, diffHours(calls[1].utcNow, calls[1].dDate), calls[1].utcNow,
                         stats, disabledTillDate)

\* C10: once a 402 has disabled a provider, a call that starts after that
\* and before the provider's disabledTillDate never invokes its adapter,
\* however the calls interleave.
C10_DisabledNotInvoked ==
    \A c \in Calls, p \in providers :
        (calls[c].quotaAtStart[p] /= NoDate /\ calls[c].utcNow < calls[c].quotaAtStart[p])
        => p \notin Range(calls[c].invoked)

-----------------------------------------------------------------------------
(* Properties of getActivityWeather.                                       *)

activityDone == activity.pc = "done"

\* The lookups of the phase that were asked / answered.
askedOf(phase) == {i \in 1..Len(activity.asked) : activity.asked[i].phase = phase}
answeredOf(phase) == {i \in 1..Len(activity.answered) : activity.answered[i].phase = phase}

\* C11: getActivityWeather never raises: whatever the user, the activity and
\* the ends of its location lookups (a lookup that throws included), a call
\* that has ended has returned an ActivityWeather or null.
C11_ActivityNeverRaises ==
    activityDone => activity.ended = "returned" /\ activity.gave \in {"weather", "null"}

C11_Witness ==
    /\ activityDone
    /\ activity.ended = "returned"
    /\ \E i \in 1..Len(activity.answered) : activity.answered[i].ended = "threw"

\* C12: the start lookup and the end lookup are independent: once the
\* start lookup was made, the end lookup is made too, whether the start
\* lookup gave a summary, null or an exception; and an end lookup that gave
\* a summary has it returned in the ActivityWeather.
C12_LookupsIndependent ==
    (activityDone /\ askedOf("start") /= {})
    => /\ askedOf("end") /= {}
       /\ \A i \in answeredOf("end") :
            truthy(activity.answered[i].result)
            => activity.gave = "weather" /\ activity.weather.end = activity.answered[i].result

\* C13: the start weather is asked at the start coordinates and the start
\* time, the end weather at the end coordinates and the end time.
C13_EndLookupAtEndTime ==
    /\ \A i \in askedOf("start") :
        /\ activity.asked[i].coordinates = activity.locationStart
        /\ activity.asked[i].dDate = activity.dateStart
    /\ \A i \in askedOf("end") :
        /\ activity.asked[i].coordinates = activity.locationEnd
        /\ activity.asked[i].dDate = activity.dateEnd

\* The lookup of the phase gave a summary.
got(phase) == \E i \in answeredOf(phase) : truthy(activity.answered[i].result)

\* C14: an activity with a start location and no end location, whose start
\* lookup gave a summary, yields an ActivityWeather with that summary as
\* start and no end, and its end lookup invokes no adapter.
C14_StartOnly ==
    (/\ activityDone
     /\ hasCoordinates(activity.locationStart)
     /\ ~hasCoordinates(activity.locationEnd)
     /\ got("start"))
    => /\ activity.ended = "returned"
       /\ activity.gave = "weather"
       /\ truthy(activity.weather.start)
       /\ \A i \in answeredOf("start") : activity.weather.start = activity.answered[i].result
       /\ ~truthy(activity.weather.end)
       /\ \A i \in answeredOf("end") : activity.answered[i].invoked = << >>

C14_Witness ==
    /\ activityDone
    /\ activity.gave = "weather"
    /\ ~hasCoordinates(activity.locationEnd)
    /\ got("start")
    /\ answeredOf("end") /= {}

\* The step starts a getActivityWeather call for an activity that ended
\* more than maxHoursPast hours before now.
startsOutOfCoverage ==
    /\ activity.pc = "idle"
    /\ activity'.pc /= "idle"
    /\ activity'.dateEnd /= NoDate
    /\ now - activity'.dateEnd > maxHoursPast * HourMs

\* C15: for an activity whose end is more than maxHoursPast hours before
\* now, getActivityWeather returns null at once: no location lookup is
\* started, so no adapter is invoked and the cache is neither read nor
\* written, and no provider's state changes.
C15_OutOfCoverage ==
    [][startsOutOfCoverage
        => /\ activity'.pc = "done"
           /\ activity'.ended = "returned"
           /\ activity'.gave = "null"
           /\ activity'.asked = << >>
           /\ UNCHANGED <<calls, started, cache, stats, disabledTillDate>>]_vars

C15_Witness ==
    /\ activityDone
    /\ activity.hasLocation
    /\ activity.dateEnd = OldDate
    /\ activity.gave = "null"
    /\ started = 0

\* C16: once the lookups were made, getActivityWeather returns null when
\* neither the start nor the end lookup gave a summary (whatever the
\* midpoint lookup gave), and otherwise returns the ActivityWeather holding
\* exactly the summaries that the lookups gave.
C16_NullOrPartial ==
    (activityDone /\ activity.asked /= << >>)
    => IF ~got("start") /\ ~got("end")
       THEN activity.ended = "returned" /\ activity.gave = "null"
       ELSE /\ activity.ended = "returned"
            /\ activity.gave = "weather"
            /\ \A phase \in {"start", "end", "mid"} :
                /\ truthy(activity.weather[phase]) <=> got(phase)
                /\ \A i \in answeredOf(phase) :
                    truthy(activity.answered[i].result)
                    => activity.weather[phase] = activity.answered[i].result

C16_Witness ==
    /\ activityDone
    /\ activity.gave = "null"
    /\ got("mid")

\* C17: the midpoint is looked up, and mid populated, only for a PRO user
\* and an activity of more than 10800 seconds.
C17_MidOnlyForProAndLong ==
    (askedOf("mid") /= {} \/ truthy(activity.weather.mid))
    => activity.isPro /\ activity.totalTime > 10800

C17_Witness ==
    /\ activityDone
    /\ activity.gave = "weather"
    /\ truthy(activity.weather.mid)

-----------------------------------------------------------------------------
(* Properties of getLocationWeather, continued.                            *)

\* C18: a successful adapter call clears the provider's disabledTillDate:
\* when a call returns the summary its first or its second candidate gave,
\* the disabledTillDate of that provider is null.
C18_SuccessClearsDisabled ==
    [][\A c \in Calls :
        (/\ calls[c].pc \in {"first", "second"}
         /\ calls'[c].pc = "done"
         /\ calls'[c].ended = "returned"
         /\ truthy(calls'[c].result))
        => disabledTillDate'[calls'[c].result.provider] = NoDate]_vars

\* The claim's own notion of malformed arguments: no coordinates, not two
\* components, a component that is not a number, or no point in time.
malformedArguments(coordinates, dDate) ==
    IF dDate = NoDate THEN TRUE
    ELSE IF Len(coordinates) /= 2 THEN TRUE
    ELSE \E i \in 1..2 : coordinates[i] = NaN

\* C19: a call with malformed coordinates or without a point in time
\* returns null at once: it does not read or write the cache, invokes no
\* adapter, and changes no provider's stats or disabledTillDate.
C19_MalformedRejected ==
    [][\A c \in Calls :
        (newCall(c) /\ malformedArguments(calls'[c].coordinates, calls'[c].dDate))
        => /\ calls'[c].pc = "done"
           /\ calls'[c].ended = "returned"
           /\ calls'[c].result = Null
           /\ calls'[c].invoked = << >>
           /\ ~calls'[c].cacheRead
           /\ UNCHANGED <<cache, stats, disabledTillDate>>]_vars

C19_Witness ==
    /\ done(1) /\ gaveNull(1)
    /\ calls[1].serial = 2
    /\ calls[1].coordinates \in MalformedCoordinates
    /\ ~calls[1].cacheRead
    /\ \E id \in CacheIds : truthy(cache[id].data)

\* The three clauses of eligibility as the claim states them, on the exact
\* distance in time: coverage, not disabled, under the quota or more than 16
\* hours since the last request.
eligibleAsClaimed(p, dDate, t, st, disabled) ==
    /\ IF dDate <= t
       THEN hoursPast(p) * HourMs >= t - dDate
       ELSE hoursFuture(p) * HourMs >= dDate - t
    /\ disabled[p] = NoDate \/ ~(disabled[p] > t)
    /\ \/ st[p].requestCount < perDay(p)
       \/ st[p].lastRequest /= NoDate /\ t - st[p].lastRequest > 16 * HourMs

\* The new call of the step went past the cache to the filter of providers.
filtered(c) ==
    \/ calls'[c].pc = "first"
    \/ calls'[c].pc = "done" /\ calls'[c].cacheRead /\ calls'[c].result = Null

\* C20: the providers a call considers eligible are exactly the registered
\* providers that satisfy the three clauses when the call starts, and no
\* provider outside them is invoked.
C20_EligibleExactly ==
    /\ [][\A c \in Calls :
            (newCall(c) /\ filtered(c))
            => calls'[c].availableProviders =
                {p \in providers :
                    eligibleAsClaimed(p, calls'[c].dDate, now, stats, disabledTillDate)}]_vars
    /\ [](\A c \in Calls : Range(calls[c].invoked) \subseteq calls[c].availableProviders)

\* C21: the candidates of a call are eligible providers, without
\* duplicates, as many as min(2, number of eligible providers), and the
\* resolved preferred provider, when eligible, is the first of them.
C21_CandidateSelection ==
    \A c \in Calls :
        LET cp == calls[c].currentProviders
            av == calls[c].availableProviders
        IN  cp /= << >>
            => /\ Range(cp) \subseteq av
               /\ \A i, j \in 1..Len(cp) : i /= j => cp[i] /= cp[j]
               /\ Len(cp) = IF Cardinality(av) < 2 THEN Cardinality(av) ELSE 2
               /\ calls[c].provider \in av => cp[1] = calls[c].provider

\* The adapter call of the step's call ended with the outcome.
settledWith(c, n, outcomes) ==
    /\ Len(calls[c].attempts) = n - 1
    /\ Len(calls'[c].attempts) = n
    /\ calls'[c].attempts[n].outcome \in outcomes

\* C22: when the second candidate's adapter fails with HTTP 402, its
\* disabledTillDate is set to the end of the day of the call plus one hour,
\* as for the first candidate.
C22_SecondQuotaDisables ==
    [][\A c \in Calls :
        settledWith(c, 2, {"quota"})
        => disabledTillDate'[calls'[c].attempts[2].provider]
            = endOfDay(calls'[c].utcNow) + HourMs]_vars

\* C23: when the first candidate fails with HTTP 402 and the second
\* candidate's adapter succeeds, the call returns the second candidate's
\* summary; the first candidate's disabledTillDate is then the end of the
\* day the call started in plus one hour, later than the start of the call
\* (and than its return, when it returns that same day), and the second
\* candidate is not disabled.
C23_QuotaThenFallback ==
    [][\A c \in Calls :
        (/\ settledWith(c, 2, {"ok"})
         /\ calls'[c].attempts[1].outcome = "quota")
        => LET first == calls'[c].attempts[1].provider
               second == calls'[c].attempts[2].provider
           IN  /\ calls'[c].pc = "done"
               /\ calls'[c].ended = "returned"
               /\ truthy(calls'[c].result)
               /\ calls'[c].result.provider = second
               /\ second = calls'[c].currentProviders[2]
               /\ first /= second
               /\ disabledTillDate'[first] = endOfDay(calls'[c].utcNow) + HourMs
               /\ disabledTillDate'[first] > calls'[c].utcNow
               /\ now' <= endOfDay(calls'[c].utcNow) => disabledTillDate'[first] > now'
               /\ ~(disabledTillDate'[second] /= NoDate /\ now' < disabledTillDate'[second])]_vars

C23_Witness ==
    /\ done(1) /\ gaveSummary(1)
    /\ Len(calls[1].attempts) = 2
    /\ calls[1].attempts[1].outcome = "quota"
    /\ calls[1].result.provider = calls[1].attempts[2].provider
    /\ now < disabledTillDate[calls[1].attempts[1].provider]

\* C24: a failure of an adapter other than HTTP 402 (transport error, empty
\* response, date out of range) leaves every disabledTillDate as it was, and
\* when it is the first candidate's and there is a second candidate, that
\* candidate's adapter is invoked next.
C24_OtherFailureFallsBack ==
    [][\A c \in Calls :
        /\ settledWith(c, 1, {"transport", "empty", "range"})
            => /\ disabledTillDate' = disabledTillDate
               /\ (Len(calls[c].currentProviders) = 2 /\ calls[c].currentProviders[2] \in providers)
                    => /\ calls'[c].pc = "second"
                       /\ calls'[c].invoked = calls[c].currentProviders
        /\ settledWith(c, 2, {"transport", "empty", "range"})
            => disabledTillDate' = disabledTillDate]_vars

C24_Witness ==
    /\ done(1) /\ gaveSummary(1)
    /\ Len(calls[1].attempts) = 2
    /\ calls[1].attempts[1].outcome \in {"transport", "empty"}
    /\ calls[1].serial = 1
    /\ \A p \in providers : disabledTillDate[p] = NoDate

\* What cache.get gives the new call of the step.
cachedFor(c) == cacheGet(cache, calls'[c].cacheId, now)

\* The new call of the step was answered with the cached entry.
usedHit(c) ==
    /\ calls'[c].pc = "done"
    /\ calls'[c].ended = "returned"
    /\ truthy(calls'[c].result)
    /\ calls'[c].result = cachedFor(c)
    /\ calls'[c].invoked = << >>
    /\ stats' = stats

\* The hit is usable as the claim has it: the selection is a default one, or
\* the entry is of the provider asked for.
hitUsable(c) ==
    /\ truthy(cachedFor(c))
    /\ calls'[c].isDefaultProvider \/ cachedFor(c).provider = calls'[c].providerArg

\* An entry is there, of another provider than the one asked for.
hitOfOtherProvider(c) ==
    /\ truthy(cachedFor(c))
    /\ ~calls'[c].isDefaultProvider
    /\ cachedFor(c).provider /= calls'[c].providerArg

\* Some provider passes the filter for the new call of the step.
someEligible(c) ==
    \E p \in providers :
        isAvailable(p, diffHours(now, calls'[c].dDate), now, stats, disabledTillDate)

gaveNullUntouched(c) ==
    /\ calls'[c].pc = "done"
    /\ calls'[c].ended = "returned"
    /\ calls'[c].result = Null
    /\ calls'[c].invoked = << >>
    /\ UNCHANGED <<stats, disabledTillDate, cache>>

\* C30 as claimed: when no provider is eligible for the query the call
\* returns null, invokes no adapter and changes no provider's state and no
\* cache entry.
C30_NoProviderReturnsNull ==
    [][\A c \in Calls :
        (newCall(c) /\ calls'[c].cacheRead /\ ~someEligible(c))
        => gaveNullUntouched(c)]_vars

\* C30, amended: when the cache holds no usable entry for the query and no
\* provider is eligible, the call returns null, invokes no adapter and
\* changes no provider's state and no cache entry.
C30_MissAndNoProviderReturnsNull ==
    [][\A c \in Calls :
        (newCall(c) /\ calls'[c].cacheRead /\ ~hitUsable(c) /\ ~someEligible(c))
        => gaveNullUntouched(c)]_vars

C30_Witness ==
    /\ done(1) /\ gaveNull(1)
    /\ calls[1].cacheRead
    /\ calls[1].serial = 2
    /\ calls[1].invoked = << >>
    /\ calls[1].availableProviders = {}
    /\ \E p \in providers : stats[p].requestCount > 0

\* C26: isDefaultProvider is true exactly when neither the explicit
\* provider argument nor the user's stored preference gave the provider,
\* that is when it was drawn from the default pool.
C26_DefaultOnlyFromPool ==
    \A c \in Calls :
        calls[c].cacheRead
        => (calls[c].isDefaultProvider
            <=> (calls[c].providerArg = NoProvider /\ calls[c].weatherProvider = NoProvider))

\* C27: the provider of a call is the explicit argument when there is one,
\* else the user's stored preference when there is one, else a provider of
\* the default pool.
C27_ResolutionOrder ==
    \A c \in Calls :
        calls[c].cacheRead
        => IF calls[c].providerArg /= NoProvider
           THEN calls[c].provider = calls[c].providerArg
           ELSE IF calls[c].weatherProvider /= NoProvider
           THEN calls[c].provider = calls[c].weatherProvider
           ELSE calls[c].provider \in defaultProviders

C27_Witness ==
    /\ calls[1].cacheRead
    /\ calls[1].providerArg = "stormglass"
    /\ calls[1].weatherProvider = "tomorrow"
    /\ calls[1].provider = "stormglass"

\* C28: every entry of the cache is a summary with a provider, and a step
\* in which a call ends without a summary writes no entry.
C28_CacheHoldsSummaries ==
    /\ [](\A id \in CacheIds :
            cache[id].expires /= NoDate
            => truthy(cache[id].data) /\ cache[id].data.provider \in providers)
    /\ [][\A c \in Calls :
            (calls'[c].pc = "done" /\ calls[c] /= calls'[c] /\ ~truthy(calls'[c].result))
            => cache' = cache]_vars

\* C29: when a call returns the summary its first or second candidate
\* gave, the cache entry of the call's key holds that summary, alive; and
\* nothing is written while an adapter call of the call is awaited.
C29_SuccessIsCached ==
    [][\A c \in Calls :
        /\ (settledWith(c, 1, {"ok"}) \/ settledWith(c, 2, {"ok"}))
            => /\ calls'[c].pc = "done"
               /\ calls'[c].ended = "returned"
               /\ truthy(calls'[c].result)
               /\ cache'[calls'[c].cacheId].data = calls'[c].result
               /\ cacheGet(cache', calls'[c].cacheId, now') = calls'[c].result
        /\ calls'[c].pc \in {"first", "second"} => cache' = cache]_vars

C29_Witness ==
    /\ done(1) /\ gaveSummary(1)
    /\ Len(calls[1].attempts) = 2
    /\ calls[1].attempts[1].outcome = "transport"
    /\ calls[1].serial = 2
    /\ cacheGet(cache, calls[1].cacheId, now) = calls[1].result

\* The adapter calls of a call on provider p that failed.
failuresOn(call, p) ==
    {i \in 1..Len(call.attempts) : call.attempts[i].provider = p /\ failed(call.attempts[i])}

\* C31: every failed adapter call raises the errorCount of its provider by
\* exactly one, whatever the failure (network error, malformed response,
\* out of range, a response no summary can be built of): when a call has
\* ended, each provider's errorCount is what it was when the call started
\* plus the number of the call's adapter calls on it that failed.
C31_EveryFailureCounted ==
    \A c \in Calls :
        done(c) => \A p \in providers :
            stats[p].errorCount = calls[c].errorsBefore[p] + Cardinality(failuresOn(calls[c], p))

\* The step invokes an adapter for call c: the first candidate of a new call,
\* or the second candidate after the first failed.
invoking(c) ==
    \/ newCall(c) /\ calls'[c].pc = "first"
    \/ calls[c].pc = "first" /\ calls'[c].pc = "second"

\* The point in time is more than hoursPast hours before t, or more than
\* hoursFuture hours after it.
beyondWindow(p, dDate, t) ==
    \/ dDate <= t /\ t - dDate > hoursPast(p) * HourMs
    \/ dDate > t /\ dDate - t > hoursFuture(p) * HourMs

\* C32: an adapter invoked for a point in time more than hoursPast hours in
\* the past or more than hoursFuture hours in the future fails with the
\* out-of-range error and schedules no request; invoked for a point inside
\* the window it schedules the request.
C32_OutOfRangeWithoutRequest ==
    [][\A c \in Calls :
        invoking(c)
        => LET p == calls'[c].providerModule
           IN  IF beyondWindow(p, calls'[c].dDate, now)
               THEN /\ calls'[c].pending = "rangeError"
                    /\ stats'[p].requestCount = stats[p].requestCount
               ELSE /\ calls'[c].pending = "request"
                    /\ stats'[p].requestCount = stats[p].requestCount + 1]_vars

\* C33: the coverage filter of the aggregator and the range check of the
\* adapter agree at one and the same current time: a provider that passes
\* the filter for a point in time is not out of range for it, so the first
\* candidate of a call, invoked at the time of the filter, schedules its
\* request and never fails with the out-of-range error.
C33_FilterAgreesWithAdapter ==
    /\ [](\A p \in providers, dDate \in Dates :
            isAvailable(p, diffHours(now, dDate), now, stats, disabledTillDate)
            => ~outOfRange(p, dDate, now))
    /\ [][\A c \in Calls :
            (newCall(c) /\ filtered(c))
            => /\ \A p \in calls'[c].availableProviders :
                    ~outOfRange(p, calls'[c].dDate, calls'[c].utcNow)
               /\ calls'[c].pc = "first" => calls'[c].pending = "request"]_vars

C33_Witness ==
    /\ calls[1].pc = "first"
    /\ calls[1].dDate = OldDate
    /\ calls[1].providerModule = "stormglass"
    /\ beyondWindow("stormglass", OldDate, calls[1].utcNow)
    /\ calls[1].pending = "request"

\* The call that has ended got its summary from the adapter of p, and the
\* request was admitted with p's requestCount at or above the daily limit:
\* p had passed the quota clause through the time-window escape only.
servedThroughEscape(c, p) ==
    /\ done(c) /\ gaveSummary(c)
    /\ calls[c].attempts /= << >>
    /\ calls[c].result.provider = p
    /\ stats[p].requestCount > perDay(p)

\* Clauses 1 and 2 of the filter, for a query about dDate at time t.
coveredAndEnabled(p, dDate, t) ==
    /\ hoursPast(p) >= diffHours(t, dDate)
    /\ hoursFuture(p) >= 0 - diffHours(t, dDate)
    /\ disabledTillDate[p] = NoDate \/ ~(t < disabledTillDate[p])

C35_CountersMonotone ==
    [][\A p \in providers :
        /\ stats'[p].requestCount >= stats[p].requestCount
        /\ stats'[p].errorCount >= stats[p].errorCount]_vars

C35_Witness ==
    /\ activityDone
    /\ stats["stormglass"].errorCount >= 2
    /\ stats["stormglass"].requestCount >= 2
    /\ stats["weatherapi"].requestCount >= 1

\* The adapter calls of call c on provider p that fail in the step: one that
\* settles with a failure, or one that is invoked out of range and throws
\* before it schedules anything.
failingNow(c, p) ==
    (IF /\ \/ settledWith(c, 1, FailedOutcomes)
           \/ settledWith(c, 2, FailedOutcomes)
        /\ calls[c].providerModule = p
     THEN 1 ELSE 0)
    + (IF invoking(c) /\ calls'[c].providerModule = p /\ calls'[c].pending = "rangeError"
       THEN 1 ELSE 0)

\* C36: the updates of a provider's runtime state are not split: however the
\* concurrent calls interleave, every step raises each provider's errorCount
\* by exactly the number of adapter calls on it that fail in the step, so N
\* failed adapter calls raise it by exactly N.
C36_NoLostUpdate ==
    [][\A p \in providers :
        stats'[p].errorCount = stats[p].errorCount + failingNow(1, p) + failingNow(2, p)]_vars

\* The names of the registered providers, and the known providers that the
\* settings neither disable nor leave without a secret.
registeredNames == {registry.providers[i].name : i \in 1..Len(registry.providers)}
configuredNames ==
    {p \in providers : ~registry.settings[p].disabled /\ registry.settings[p].secret}

\* C37: after init the list of registered providers holds exactly the known
\* providers that are not disabled and have a secret, each once and with
\* requestCount 0 and errorCount 0, and maxHoursPast is the largest
\* hoursPast of the registered providers, or 0 when none is registered.
C37_InitRegistersConfigured ==
    registry.pc = "ready"
    => /\ registeredNames = configuredNames
       /\ Len(registry.providers) = Cardinality(configuredNames)
       /\ \A i \in 1..Len(registry.providers) :
            /\ registry.providers[i].stats.requestCount = 0
            /\ registry.providers[i].stats.errorCount = 0
       /\ IF configuredNames = {}
          THEN registry.maxHoursPast = 0
          ELSE /\ \E p \in configuredNames : registry.maxHoursPast = hoursPast(p)
               /\ \A p \in configuredNames : registry.maxHoursPast >= hoursPast(p)

C37_Witness ==
    /\ registry.pc = "ready"
    /\ registry.settings["stormglass"].disabled
    /\ ~registry.settings["tomorrow"].secret
    /\ registeredNames = {"weatherapi"}
    /\ registry.maxHoursPast = hoursPast("weatherapi")

\* The step starts getActivityWeather for an activity with no location data
\* at all: neither start nor end coordinates.
startsWithoutLocation ==
    /\ activity.pc = "idle"
    /\ activity'.pc /= "idle"
    /\ activity'.locationStart = NullCoordinates
    /\ activity'.locationEnd = NullCoordinates

\* C38: for an activity with neither start nor end coordinates,
\* getActivityWeather returns null at once: it starts no location lookup,
\* so no adapter is invoked, the cache is neither read nor written, and no
\* provider's state changes.
C38_NoLocationReturnsNull ==
    [][startsWithoutLocation
        => /\ activity'.pc = "done"
           /\ activity'.ended = "returned"
           /\ activity'.gave = "null"
           /\ activity'.asked = << >>
           /\ activity'.answered = << >>
           /\ UNCHANGED <<calls, started, cache, stats, disabledTillDate>>]_vars

C38_Witness ==
    /\ activityDone
    /\ activity.locationStart = NullCoordinates
    /\ activity.locationEnd = NullCoordinates
    /\ activity.dateEnd = EarlierDate + 7200 * 1000
    /\ activity.gave = "null"
    /\ started = 0

\* The n-th getLocationWeather call awaits an adapter / has returned.
awaiting(n) == calls[1].serial = n /\ calls[1].pc \in {"first", "second"}
hasReturned(n) == calls[1].serial = n /\ done(1) /\ calls[1].ended = "returned"

\* C39: provided every adapter call eventually completes, every
\* getLocationWeather call eventually returns, and every getActivityWeather
\* call eventually returns, after at most three location lookups.
C39_EventuallyReturns ==
    /\ \A n \in 1..LookupLimit : awaiting(n) ~> hasReturned(n)
    /\ (activity.pc \in {"start", "end", "mid"})
            ~> (activityDone /\ activity.ended = "returned")
    /\ [](Len(activity.asked) <= 3)

\* A source reports the measurement: its value is there and is not null.
reported(v) == v /= Absent /\ v /= JsNull

\* The value of the first source, in the order sg, dwd, noaa, that reports
\* the measurement; Absent when none does.
firstReported(data) ==
    IF ~data.present THEN Absent
    ELSE IF reported(data.sg) THEN data.sg
    ELSE IF reported(data.dwd) THEN data.dwd
    ELSE IF reported(data.noaa) THEN data.noaa
    ELSE Absent

\* C40: the summary carries a measurement that the vendor reports, 0
\* included, with the value of the first source that reports it in the
\* order sg, dwd, noaa; a measurement absent or null in the payload is left
\* unset, not defaulted to zero.
C40_FirstReportedSource ==
    reading.pc = "summary"
    => IF reported(firstReported(reading.data))
       THEN reading.temperature = firstReported(reading.data)
       ELSE ~reported(reading.temperature)

====
